---- MODULE Spec2Model ----
(***************************************************************************)
(* A model of the cipha cipher library (cipha-lib/src/lib.rs, and the      *)
(* CaesarCipher struct of cipha-lib/src/ciphers.rs) and of the dispatcher  *)
(* of its command line (cipha-cli/src/main.rs).                            *)
(*                                                                         *)
(* A character is a one-character string; a Rust String is a sequence of   *)
(* characters.  The strings "U+00E9" and "U+00DF" stand for the two-byte  *)
(* characters e-acute and sharp s, the non-ASCII characters of the model.  *)
(* Arithmetic on u8 keeps its width: a result outside 0..255 panics in a   *)
(* debug build and wraps modulo 256 in a release build; the variable build *)
(* says which.                                                             *)
(***************************************************************************)
EXTENDS Integers, Sequences, FiniteSets, TLC

VARIABLES build, gem, vig, cli, mor, rf, lib

vars == <<build, gem, vig, cli, mor, rf, lib>>

\* The two arithmetic regimes of rustc: overflow checks on (debug) or off (release).
Builds == {"debug", "release"}

\* The state of a component no operation of the running specification touches.
Idle == [pc |-> "idle"]

(***************************************************************************)
(* Characters                                                              *)
(***************************************************************************)

\* The grave accent (code 96), which the lexer of TLA+ does not take in a string.
Grave == "U+0060"

\* The printable ASCII characters in code order, from ' ' (32) to '~' (126).
AsciiPrintable ==
    <<
       " ", "!", "\"", "#", "$", "%", "&", "'", "(", ")", "*", "+",
       ",", "-", ".", "/", "0", "1", "2", "3", "4", "5", "6", "7",
       "8", "9", ":", ";", "<", "=", ">", "?", "@", "A", "B", "C",
       "D", "E", "F", "G", "H", "I", "J", "K", "L", "M", "N", "O",
       "P", "Q", "R", "S", "T", "U", "V", "W", "X", "Y", "Z", "[",
       "\\", "]", "^", "_", Grave, "a", "b", "c", "d", "e", "f", "g",
       "h", "i", "j", "k", "l", "m", "n", "o", "p", "q", "r", "s",
       "t", "u", "v", "w", "x", "y", "z", "{", "|", "}", "~"
    >>

FirstPrintable == 32

EAcute == "U+00E9"

\* (c as u8), (c as u32) of an ASCII character.
OrdMap == [c \in {AsciiPrintable[i] : i \in 1..Len(AsciiPrintable)} |->
             CHOOSE i \in 1..Len(AsciiPrintable) : AsciiPrintable[i] = c]

Ord(c) == OrdMap[c] + FirstPrintable - 1

\* (n as char), char::from_u32(n) of a printable code.
Chr(n) == AsciiPrintable[n - FirstPrintable + 1]

IsAscii(c) == c \in DOMAIN OrdMap

LowerA == 97

UpperA == 65

Zero == 48

\* char::is_ascii_lowercase, is_ascii_uppercase, is_ascii_alphabetic
IsAsciiLowercase(c) == IsAscii(c) /\ Ord(c) >= LowerA /\ Ord(c) <= LowerA + 25

IsAsciiUppercase(c) == IsAscii(c) /\ Ord(c) >= UpperA /\ Ord(c) <= UpperA + 25

IsAsciiAlphabetic(c) == IsAsciiLowercase(c) \/ IsAsciiUppercase(c)

\* char::is_digit(10): the ASCII digits only.
IsDigit(c) == IsAscii(c) /\ Ord(c) >= Zero /\ Ord(c) <= Zero + 9

\* char::is_whitespace, on the characters of the model.
IsWhitespace(c) == c \in {" ", "\t", "\n", "\r"}

\* char::to_ascii_lowercase / str::to_uppercase on one character of the model.
ToAsciiLowercase(c) == IF IsAsciiUppercase(c) THEN Chr(Ord(c) - UpperA + LowerA) ELSE c

ToUppercase(c) == IF IsAsciiLowercase(c) THEN Chr(Ord(c) - LowerA + UpperA) ELSE c

\* "U+00DF" stands for the sharp s, whose uppercase form is two characters.
SharpS == "U+00DF"

\* char::to_uppercase: the characters that one character yields.
ToUppercaseChars(c) == IF c = SharpS THEN <<"S", "S">> ELSE <<ToUppercase(c)>>

\* str::to_uppercase
RECURSIVE StrToUppercase(_)
StrToUppercase(s) ==
    IF s = <<>> THEN <<>>
    ELSE ToUppercaseChars(Head(s)) \o StrToUppercase(Tail(s))

\* The bytes of a character in UTF-8, and str::len of a string.
Utf8Len(c) == IF IsAscii(c) \/ IsWhitespace(c) THEN 1 ELSE 2

RECURSIVE ByteLen(_)
ByteLen(s) == IF s = <<>> THEN 0 ELSE Utf8Len(Head(s)) + ByteLen(Tail(s))

\* All strings over alphabet of at most n characters.
Strings(alphabet, n) == UNION {[1..k -> alphabet] : k \in 0..n}

\* str::trim: leading and trailing whitespace removed.
RECURSIVE TrimStart(_)
TrimStart(s) ==
    IF s # <<>> /\ IsWhitespace(Head(s)) THEN TrimStart(Tail(s)) ELSE s

RECURSIVE TrimEnd(_)
TrimEnd(s) ==
    IF s # <<>> /\ IsWhitespace(s[Len(s)]) THEN TrimEnd(SubSeq(s, 1, Len(s) - 1)) ELSE s

Trim(s) == TrimEnd(TrimStart(s))

(***************************************************************************)
(* u8 arithmetic                                                           *)
(***************************************************************************)

U8Max == 255

\* Whether a mathematical result fits a u8, and the value a release build keeps.
FitsU8(x) == x >= 0 /\ x <= U8Max

WrapU8(x) == x % (U8Max + 1)

(***************************************************************************)
(* alpha2num and num2alpha (the "gematria" cipher)                         *)
(***************************************************************************)

\* u8::to_string: the decimal digits of n.
RECURSIVE U8ToString(_)
U8ToString(n) ==
    IF n < 10 THEN <<Chr(Zero + n)>>
    ELSE U8ToString(n \div 10) \o <<Chr(Zero + (n % 10))>>

\* The body of alpha2num's loop: what one character appends to result.
Alpha2NumToken(c) ==
    IF IsAsciiAlphabetic(c)
    THEN LET base == IF IsAsciiUppercase(c) THEN UpperA ELSE LowerA
             number == WrapU8(Ord(c) - base + 1)
         IN U8ToString(number) \o <<" ">>
    ELSE <<c, " ">>

RECURSIVE Alpha2NumLoop(_)
Alpha2NumLoop(text) ==
    IF text = <<>> THEN <<>>
    ELSE Alpha2NumToken(Head(text)) \o Alpha2NumLoop(Tail(text))

alpha2num(text) == Trim(Alpha2NumLoop(text))

\* u32::MAX in decimal.
U32MaxDigits == <<"4", "2", "9", "4", "9", "6", "7", "2", "9", "5">>

RECURSIVE StripZeros(_)
StripZeros(d) == IF Len(d) > 1 /\ Head(d) = "0" THEN StripZeros(Tail(d)) ELSE d

\* a <= b for two digit strings of one length.
RECURSIVE DigitsLeq(_, _)
DigitsLeq(a, b) ==
    IF a = <<>> THEN TRUE
    ELSE IF Ord(Head(a)) # Ord(Head(b)) THEN Ord(Head(a)) < Ord(Head(b))
    ELSE DigitsLeq(Tail(a), Tail(b))

RECURSIVE DigitsValue(_)
DigitsValue(d) ==
    IF d = <<>> THEN 0
    ELSE DigitsValue(SubSeq(d, 1, Len(d) - 1)) * 10 + (Ord(d[Len(d)]) - Zero)

\* The least number of ten digits.  It stands for every ten-digit u32: the
\* code only compares the parsed number with 26 and 52.
TenDigits == 10 ^ (Len(U32MaxDigits) - 1)

\* str::parse::<u32> of a non-empty string of decimal digits: Err when the
\* value exceeds u32::MAX.
ParseU32(buffer) ==
    LET d == StripZeros(buffer)
    IN [ok  |-> \/ Len(d) < Len(U32MaxDigits)
                \/ Len(d) = Len(U32MaxDigits) /\ DigitsLeq(d, U32MaxDigits),
        val |-> IF Len(d) < Len(U32MaxDigits) THEN DigitsValue(d) ELSE TenDigits]

\* The chain with its first bound off by one (number < 26): 26 is then read
\* as an uppercase number.
Num2AlphaCharCodeOffByOne(number) ==
    IF number < 26 THEN <<LowerA + number - 1>>
    ELSE IF number <= 52 THEN <<UpperA + number - 27>>
    ELSE <<>>

\* The if/else-if chain of num2alpha: <<char_code>>, or <<>> on the branch
\* that emits nothing.
Num2AlphaCharCode(number) ==
    IF number <= 26 THEN <<LowerA + number - 1>>
    ELSE IF number <= 52 THEN <<UpperA + number - 27>>
    ELSE <<>>

\* The locals of num2alpha at its entry.  number and pushed record what the
\* last step parsed and pushed.
Num2AlphaStart(cipher_text) ==
    [pc |-> "scan", cipher_text |-> cipher_text, pos |-> 1,
     number_buffer |-> <<>>, decrypted_text |-> <<>>,
     number |-> <<>>, pushed |-> <<>>]

\* The loop with every non-digit taken for a separator: a comma ends the
\* pending number as a space does.
Num2AlphaLoopEndingOnAnyNonDigit(s) ==
    LET char == s.cipher_text[s.pos]
        next == [s EXCEPT !.pos = s.pos + 1, !.number = <<>>, !.pushed = <<>>]
    IN  IF IsDigit(char)
        THEN [next EXCEPT !.number_buffer = Append(@, char)]
        ELSE IF s.number_buffer # <<>>
        THEN LET p == ParseU32(s.number_buffer)
                 char_code == Num2AlphaCharCode(p.val)
             IN  IF ~p.ok
                 THEN [s EXCEPT !.pc = "panic", !.number = <<>>, !.pushed = <<>>]
                 ELSE IF char_code = <<>>
                 THEN [next EXCEPT !.number = <<p.val>>]
                 ELSE [next EXCEPT !.number = <<p.val>>,
                                   !.pushed = <<Chr(char_code[1])>>,
                                   !.decrypted_text = Append(@, Chr(char_code[1])),
                                   !.number_buffer = <<>>]
        ELSE next

\* One iteration of the for loop of num2alpha, on the character at pos.
Num2AlphaLoop(s) ==
    LET char == s.cipher_text[s.pos]
        next == [s EXCEPT !.pos = s.pos + 1, !.number = <<>>, !.pushed = <<>>]
    IN  IF IsDigit(char)
        THEN [next EXCEPT !.number_buffer = Append(@, char)]
        ELSE IF IsWhitespace(char) /\ s.number_buffer # <<>>
        THEN LET p == ParseU32(s.number_buffer)
                 char_code == Num2AlphaCharCode(p.val)
             IN  IF ~p.ok
                 THEN [s EXCEPT !.pc = "panic", !.number = <<>>, !.pushed = <<>>]
                 ELSE IF char_code = <<>>
                 THEN [next EXCEPT !.number = <<p.val>>]
                 ELSE [next EXCEPT !.number = <<p.val>>,
                                   !.pushed = <<Chr(char_code[1])>>,
                                   !.decrypted_text = Append(@, Chr(char_code[1])),
                                   !.number_buffer = <<>>]
        ELSE next

\* The code after the loop: the last number, if any.
Num2AlphaFlush(s) ==
    LET done == [s EXCEPT !.pc = "done", !.number = <<>>, !.pushed = <<>>]
    IN  IF s.number_buffer # <<>>
        THEN LET p == ParseU32(s.number_buffer)
                 char_code == Num2AlphaCharCode(p.val)
             IN  IF ~p.ok
                 THEN [s EXCEPT !.pc = "panic", !.number = <<>>, !.pushed = <<>>]
                 ELSE IF char_code = <<>>
                 THEN [done EXCEPT !.number = <<p.val>>]
                 ELSE [done EXCEPT !.number = <<p.val>>,
                                   !.pushed = <<Chr(char_code[1])>>,
                                   !.decrypted_text = Append(@, Chr(char_code[1]))]
        ELSE done

RECURSIVE Num2AlphaRun(_)
Num2AlphaRun(s) ==
    IF s.pc # "scan" THEN s
    ELSE Num2AlphaRun(IF s.pos <= Len(s.cipher_text)
                      THEN Num2AlphaLoop(s) ELSE Num2AlphaFlush(s))

\* num2alpha as a function: ok is FALSE when the call panics.
num2alpha(cipher_text) ==
    LET s == Num2AlphaRun(Num2AlphaStart(cipher_text))
    IN  [ok |-> s.pc = "done", val |-> s.decrypted_text]

(***************************************************************************)
(* SpecGem: num2alpha run character by character, on an input of its own   *)
(* or on the result of alpha2num.                                          *)
(***************************************************************************)

MaxGemTokens == 3

MaxGemLen == 3

\* What the inputs of num2alpha are made of: numbers of every branch,
\* a number one digit short of u32::MAX, separators.
GemTokens ==
    {<<"0">>, <<"1">>, <<"2", "6">>, <<"2", "7">>, <<"5", "2">>, <<"5", "3">>,
     <<"4", "2", "9", "4", "9", "6", "7", "2", "9">>, <<"5">>, <<"6">>,
     <<" ">>, <<",">>}

RECURSIVE TokenStrings(_, _)
TokenStrings(tokens, n) ==
    IF n = 0 THEN {<<>>}
    ELSE LET shorter == TokenStrings(tokens, n - 1)
         IN  shorter \cup {s \o t : s \in shorter, t \in tokens}

GemAlphabet == {"a", "m", "Z", " ", "5"}

InitGem ==
    /\ build \in Builds
    /\ \/ \E text \in Strings(GemAlphabet, MaxGemLen) :
            gem = [pc |-> "encode", text |-> text, encoded |-> TRUE,
                   cipher_text |-> <<>>, pos |-> 1, number_buffer |-> <<>>,
                   decrypted_text |-> <<>>, number |-> <<>>, pushed |-> <<>>]
       \/ \E cipher_text \in TokenStrings(GemTokens, MaxGemTokens) :
            gem = [Num2AlphaStart(cipher_text) EXCEPT !.pc = "scan"]
                    @@ [text |-> <<>>, encoded |-> FALSE]
    /\ vig = Idle /\ cli = Idle /\ mor = Idle /\ rf = Idle /\ lib = Idle

\* encode_message("gematria", text): alpha2num, whose result is then decoded.
GemEncode ==
    /\ gem.pc = "encode"
    /\ gem' = Num2AlphaStart(alpha2num(gem.text))
                @@ [text |-> gem.text, encoded |-> TRUE]
    /\ UNCHANGED <<build, vig, cli, mor, rf, lib>>

GemScanChar ==
    /\ gem.pc = "scan"
    /\ gem.pos <= Len(gem.cipher_text)
    /\ gem' = Num2AlphaLoop(gem)
    /\ UNCHANGED <<build, vig, cli, mor, rf, lib>>

GemFlush ==
    /\ gem.pc = "scan"
    /\ gem.pos > Len(gem.cipher_text)
    /\ gem' = Num2AlphaFlush(gem)
    /\ UNCHANGED <<build, vig, cli, mor, rf, lib>>

NextGem == GemEncode \/ GemScanChar \/ GemFlush

SpecGem == InitGem /\ [][NextGem]_vars

(***************************************************************************)
(* Claims about num2alpha and alpha2num (SpecGem)                          *)
(***************************************************************************)

\* The last step parsed a number at a whitespace (the flush ends the call).
ParsedAtWhitespace == gem.pc = "scan" /\ gem.number # <<>>

\* C7: when a number that a whitespace terminates is outside [1,52], nothing
\* is emitted and the digit buffer is cleared, so that the next number is
\* read from its own digits only.
C7_OutOfRangeNumberCleared ==
    (ParsedAtWhitespace /\ (gem.number[1] < 1 \/ gem.number[1] > 52))
        => (gem.pushed = <<>> /\ gem.number_buffer = <<>>)

\* What the documented rule emits for a parsed number n.
LetterOfNumber(n) ==
    IF 1 <= n /\ n <= 26 THEN <<Chr(LowerA + n - 1)>>
    ELSE IF 27 <= n /\ n <= 52 THEN <<Chr(UpperA + n - 27)>>
    ELSE <<>>

\* C8: every parsed number n, at a whitespace or at the end of the input,
\* emits 'a'+n-1 when 1 <= n <= 26, 'A'+n-27 when 27 <= n <= 52, and
\* nothing for any other n, 0 included.
C8_EmissionFollowsRange ==
    gem.number # <<>> => gem.pushed = LetterOfNumber(gem.number[1])

\* C9: num2alpha returns without panicking on every input: each parse of
\* the digit buffer succeeds.
C9_Num2AlphaNeverPanics == gem.pc # "panic"

Lowercased(s) == [i \in 1..Len(s) |-> ToAsciiLowercase(s[i])]

OnlyLetters(s) == \A i \in 1..Len(s) : IsAsciiAlphabetic(s[i])

RoundTripDone == gem.pc = "done" /\ gem.encoded

\* C10 as claimed: for every text of ASCII letters, spaces and digits,
\* num2alpha(alpha2num(m)) is m with its letters lowercased.
C10_RoundTripLettersSpacesDigits ==
    (RoundTripDone /\ \A i \in 1..Len(gem.text) :
         IsAsciiAlphabetic(gem.text[i]) \/ IsDigit(gem.text[i]) \/ gem.text[i] = " ")
        => gem.decrypted_text = Lowercased(gem.text)

\* C10 as amended: for every text of ASCII letters only, alpha2num followed
\* by num2alpha ends without a panic and returns the text lowercased.
C10_RoundTripLettersOnly ==
    /\ gem.encoded => gem.pc # "panic"
    /\ (RoundTripDone /\ OnlyLetters(gem.text))
           => gem.decrypted_text = Lowercased(gem.text)

\* C10's case: a text of several letters, one of them uppercase, went
\* through both functions.
C10_Witness ==
    /\ RoundTripDone /\ OnlyLetters(gem.text) /\ Len(gem.text) >= 2
    /\ \E i \in 1..Len(gem.text) : IsAsciiUppercase(gem.text[i])

\* The token the documentation gives a character: the 1-based position in
\* the alphabet of its case for an ASCII letter, the character otherwise.
DocumentedToken(c) ==
    IF IsAsciiLowercase(c) THEN U8ToString(Ord(c) - LowerA + 1)
    ELSE IF IsAsciiUppercase(c) THEN U8ToString(Ord(c) - UpperA + 1)
    ELSE <<c>>

RECURSIVE TokensAndSpaces(_)
TokensAndSpaces(text) ==
    IF text = <<>> THEN <<>>
    ELSE DocumentedToken(Head(text)) \o <<" ">> \o TokensAndSpaces(Tail(text))

DropLastSpace(s) == IF s = <<>> THEN s ELSE SubSeq(s, 1, Len(s) - 1)

\* alpha2num has returned and its result is about to be decoded.
Alpha2NumReturned == gem.encoded /\ gem.pc = "scan" /\ gem.pos = 1

\* C11: for every message, the result of alpha2num is one token per character
\* (alphabet position of a letter, the character itself otherwise), each
\* followed by one space, with exactly one trailing space removed and nothing
\* else, also when the message starts or ends with whitespace.
C11_Alpha2NumDropsOneTrailingSpace ==
    Alpha2NumReturned => gem.cipher_text = DropLastSpace(TokensAndSpaces(gem.text))

\* What does hold: the result is the token stream without its leading and
\* trailing whitespace, the message's own included.
Alpha2NumTrimsAllWhitespace ==
    Alpha2NumReturned => gem.cipher_text = Trim(TokensAndSpaces(gem.text))

(***************************************************************************)
(* vigenere_cipher and vigenere_decipher                                   *)
(***************************************************************************)

\* One u8 operation whose mathematical result is x: the value kept, and
\* whether it fitted.
U8(x) == [ok |-> FitsU8(x), val |-> WrapU8(x)]

\* key.as_bytes()[index % key_len] as u8 - b'a', key being the lowercased
\* key.  The keys of the model are ASCII: a character is one byte.
VigenereShift(key, index) ==
    U8(Ord(ToAsciiLowercase(key[(index % Len(key)) + 1])) - LowerA)

VigenereFirst(c) == IF IsAsciiLowercase(c) THEN LowerA ELSE UpperA

\* (first + (c as u8 - first + shift) % 26) as char
VigenereCipherChar(c, shift) ==
    LET first == VigenereFirst(c)
        sum == U8(Ord(c) - first + shift)
    IN  [ok |-> sum.ok, val |-> Chr(first + (sum.val % 26))]

\* (c as u8 - first - shift + 26) % 26 + first
VigenereDecipherChar(c, shift) ==
    LET first == VigenereFirst(c)
        diff == U8(Ord(c) - first - shift)
        sum == U8(diff.val + 26)
    IN  [ok |-> diff.ok /\ sum.ok, val |-> Chr((sum.val % 26) + first)]

\* The locals of either function at its entry, text being its first argument.
VigenereStart(text, key) ==
    [text |-> text, key |-> key, index |-> 0, pos |-> 1, out |-> <<>>,
     overflowed |-> FALSE, panicked |-> FALSE]

\* The closure with index += 1 moved out of the if: every character,
\* letter or not, advances the cursor.
VigenereLoopAdvancingAlways(s, decipher, bld) ==
    LET c == s.text[s.pos]
        shift == VigenereShift(s.key, s.index)
        r == IF decipher THEN VigenereDecipherChar(c, shift.val)
             ELSE VigenereCipherChar(c, shift.val)
        fits == shift.ok /\ r.ok
    IN  IF ~IsAsciiAlphabetic(c)
        THEN [s EXCEPT !.pos = s.pos + 1, !.index = s.index + 1,
                       !.out = Append(@, c)]
        ELSE IF ~fits /\ bld = "debug"
        THEN [s EXCEPT !.panicked = TRUE, !.overflowed = TRUE]
        ELSE [s EXCEPT !.pos = s.pos + 1, !.index = s.index + 1,
                       !.out = Append(@, r.val),
                       !.overflowed = s.overflowed \/ ~fits]

\* One call of the closure of map, on the character at pos.  An overflow
\* panics in a debug build and wraps in a release build.
VigenereLoop(s, decipher, bld) ==
    LET c == s.text[s.pos]
        shift == VigenereShift(s.key, s.index)
        r == IF decipher THEN VigenereDecipherChar(c, shift.val)
             ELSE VigenereCipherChar(c, shift.val)
        fits == shift.ok /\ r.ok
    IN  IF ~IsAsciiAlphabetic(c)
        THEN [s EXCEPT !.pos = s.pos + 1, !.out = Append(@, c)]
        ELSE IF ~fits /\ bld = "debug"
        THEN [s EXCEPT !.panicked = TRUE, !.overflowed = TRUE]
        ELSE [s EXCEPT !.pos = s.pos + 1, !.index = s.index + 1,
                       !.out = Append(@, r.val),
                       !.overflowed = s.overflowed \/ ~fits]

RECURSIVE VigenereRun(_, _, _)
VigenereRun(s, decipher, bld) ==
    IF s.panicked \/ s.pos > Len(s.text) THEN s
    ELSE VigenereRun(VigenereLoop(s, decipher, bld), decipher, bld)

\* The two functions: ok is FALSE when the call panics, fits is FALSE when a
\* u8 operation of the call overflowed.
VigenereCall(text, key, decipher, bld) ==
    IF Len(key) = 0 THEN [ok |-> TRUE, fits |-> TRUE, val |-> text]
    ELSE LET s == VigenereRun(VigenereStart(text, key), decipher, bld)
         IN  [ok |-> ~s.panicked, fits |-> ~s.overflowed, val |-> s.out]

vigenere_cipher(plaintext, key, bld) == VigenereCall(plaintext, key, FALSE, bld)

vigenere_decipher(ciphertext, key, bld) == VigenereCall(ciphertext, key, TRUE, bld)

(***************************************************************************)
(* SpecVig: vigenere_cipher run character by character and its result     *)
(* handed to vigenere_decipher, or vigenere_decipher run on a text of its  *)
(* own.                                                                    *)
(***************************************************************************)

MaxVigLen == 3

MaxKeyLen == 2

VigAlphabet == {"a", "z", "B", " "}

KeyAlphabet == {"b", "Z", "1"}

InitVig ==
    /\ build \in Builds
    /\ \E text \in Strings(VigAlphabet, MaxVigLen),
          key \in Strings(KeyAlphabet, MaxKeyLen),
          pc \in {"cipher", "decipher"} :
            vig = VigenereStart(text, key)
                    @@ [pc |-> pc, plaintext |-> text, roundtrip |-> pc = "cipher",
                        result |-> <<>>]
    /\ gem = Idle /\ cli = Idle /\ mor = Idle /\ rf = Idle /\ lib = Idle

VigRunning == vig.pc \in {"cipher", "decipher"}

\* What follows the return of a function: the result of vigenere_cipher is
\* the input of vigenere_decipher, with the same key.
VigReturn(val) ==
    IF vig.pc = "cipher"
    THEN VigenereStart(val, vig.key)
           @@ [pc |-> "decipher", plaintext |-> vig.plaintext,
               roundtrip |-> TRUE, result |-> <<>>]
    ELSE [vig EXCEPT !.pc = "done", !.result = val]

\* The early return with String::new() in place of the text.
VigEmptyKeyReturnsEmpty ==
    /\ VigRunning
    /\ Len(vig.key) = 0
    /\ vig' = VigReturn(<<>>)
    /\ UNCHANGED <<build, gem, cli, mor, rf, lib>>

\* if key_len == 0 { return text.to_string(); }
VigEmptyKey ==
    /\ VigRunning
    /\ Len(vig.key) = 0
    /\ vig' = VigReturn(vig.text)
    /\ UNCHANGED <<build, gem, cli, mor, rf, lib>>

VigChar ==
    /\ VigRunning
    /\ Len(vig.key) > 0
    /\ vig.pos <= Len(vig.text)
    /\ LET s == VigenereLoop(vig, vig.pc = "decipher", build)
       IN  vig' = IF s.panicked THEN [s EXCEPT !.pc = "panic"] ELSE s
    /\ UNCHANGED <<build, gem, cli, mor, rf, lib>>

\* collect(): the characters mapped are the String returned.
VigCollect ==
    /\ VigRunning
    /\ Len(vig.key) > 0
    /\ vig.pos > Len(vig.text)
    /\ vig' = VigReturn(vig.out)
    /\ UNCHANGED <<build, gem, cli, mor, rf, lib>>

NextVig == VigEmptyKey \/ VigChar \/ VigCollect

SpecVig == InitVig /\ [][NextVig]_vars

\* The key is not empty and made of ASCII letters.
AlphabeticKey(key) == Len(key) > 0 /\ \A i \in 1..Len(key) : IsAsciiAlphabetic(key[i])

\* C1: for every ASCII message and every non-empty alphabetic key,
\* vigenere_decipher(vigenere_cipher(m, k), k) returns m, and no u8
\* intermediate of (c - first - shift + 26) leaves 0..255.
C1_VigenereRoundTripInRange ==
    (vig.roundtrip /\ AlphabeticKey(vig.key))
        => /\ vig.pc # "panic"
           /\ ~vig.overflowed
           /\ vig.pc = "done" => vig.result = vig.plaintext

(***************************************************************************)
(* Morse code                                                              *)
(***************************************************************************)

\* The table of the source, entry by entry and in its order: <<key, value>>.
MORSE_CODE_MAP ==
    <<
     <<"A", <<".", "-">>>>, <<"B", <<"-", ".", ".", ".">>>>,
     <<"C", <<"-", ".", "-", ".">>>>, <<"D", <<"-", ".", ".">>>>,
     <<"E", <<".">>>>, <<"F", <<".", ".", "-", ".">>>>,
     <<"G", <<"-", "-", ".">>>>, <<"H", <<".", ".", ".", ".">>>>,
     <<"I", <<".", ".">>>>, <<"J", <<".", "-", "-", "-">>>>,
     <<"K", <<"-", ".", "-">>>>, <<"L", <<".", "-", ".", ".">>>>,
     <<"M", <<"-", "-">>>>, <<"N", <<"-", ".">>>>,
     <<"O", <<"-", "-", "-">>>>, <<"P", <<".", "-", "-", ".">>>>,
     <<"Q", <<"-", "-", ".", "-">>>>, <<"R", <<".", "-", ".">>>>,
     <<"S", <<".", ".", ".">>>>, <<"T", <<"-">>>>,
     <<"U", <<".", ".", "-">>>>, <<"V", <<".", ".", ".", "-">>>>,
     <<"W", <<".", "-", "-">>>>, <<"X", <<"-", ".", ".", "-">>>>,
     <<"Y", <<"-", ".", "-", "-">>>>, <<"Z", <<"-", "-", ".", ".">>>>,
     <<"0", <<"-", "-", "-", "-", "-">>>>, <<"1", <<".", "-", "-", "-", "-">>>>,
     <<"2", <<".", ".", "-", "-", "-">>>>, <<"3", <<".", ".", ".", "-", "-">>>>,
     <<"4", <<".", ".", ".", ".", "-">>>>, <<"5", <<".", ".", ".", ".", ".">>>>,
     <<"6", <<"-", ".", ".", ".", ".">>>>, <<"7", <<"-", "-", ".", ".", ".">>>>,
     <<"8", <<"-", "-", "-", ".", ".">>>>, <<"9", <<"-", "-", "-", "-", ".">>>>,
     <<" ", <<"/">>>>, <<".", <<".", "-", ".", "-", ".", "-">>>>,
     <<",", <<"-", "-", ".", ".", "-", "-">>>>, <<"?", <<".", ".", "-", "-", ".", ".">>>>,
     <<";", <<"-", ".", "-", ".", "-", ".">>>>, <<":", <<"-", "-", "-", ".", ".", ".">>>>,
     <<"-", <<"-", ".", ".", ".", ".", "-">>>>, <<"/", <<"-", ".", ".", "-", ".">>>>,
     <<"'", <<".", "-", "-", "-", "-", ".">>>>, <<"\"", <<".", "-", ".", ".", "-", ".">>>>,
     <<"=", <<"-", ".", ".", ".", "-">>>>, <<"_", <<".", ".", "-", "-", ".", "-">>>>,
     <<"+", <<".", "-", ".", "-", ".">>>>, <<"-", <<"-", ".", ".", ".", ".", "-">>>>,
     <<"*", <<"-", ".", ".", "-">>>>, <<"(", <<"-", ".", "-", "-", ".">>>>,
     <<")", <<"-", ".", "-", "-", ".", "-">>>>
    >>

EmptyMap == [k \in {} |-> <<>>]

\* The HashMap that the insertion of every entry of the table, in its order,
\* leaves: HashMap::insert replaces the value of a key already there, so a
\* key keeps the value of its last entry.  from and to are 1 and 2 for the
\* map, 2 and 1 for the reverse map.
MapOfTable(from, to) ==
    LET n == Len(MORSE_CODE_MAP)
        last(k) == CHOOSE i \in 1..n :
                       /\ MORSE_CODE_MAP[i][from] = k
                       /\ \A j \in (i + 1)..n : MORSE_CODE_MAP[j][from] # k
    IN  [k \in {MORSE_CODE_MAP[i][from] : i \in 1..n} |-> MORSE_CODE_MAP[last(k)][to]]

create_morse_code_map == MapOfTable(1, 2)

create_reverse_morse_code_map == MapOfTable(2, 1)

\* The loop of morse_code_cipher over chars, the characters of
\* text.to_uppercase().
RECURSIVE MorseCipherLoop(_)
MorseCipherLoop(chars) ==
    IF chars = <<>> THEN <<>>
    ELSE LET c == Head(chars)
         IN  (IF c \in DOMAIN create_morse_code_map
              THEN create_morse_code_map[c] \o <<" ">> ELSE <<>>)
             \o MorseCipherLoop(Tail(chars))

\* The result without the final trim: the last separator stays.
MorseCodeCipherUntrimmed(text) == MorseCipherLoop(StrToUppercase(text))

morse_code_cipher(text) == Trim(MorseCipherLoop(StrToUppercase(text)))

\* str::split(sep): the pieces between the separators, empty ones included.
RECURSIVE Split(_, _)
Split(s, sep) ==
    IF s = <<>> THEN << <<>> >>
    ELSE LET rest == Split(Tail(s), sep)
         IN  IF Head(s) = sep THEN << <<>> >> \o rest
             ELSE << <<Head(s)>> \o rest[1] >> \o Tail(rest)

RECURSIVE MorseDecipherLoop(_)
MorseDecipherLoop(code_vec) ==
    IF code_vec = <<>> THEN <<>>
    ELSE (IF Head(code_vec) \in DOMAIN create_reverse_morse_code_map
          THEN <<create_reverse_morse_code_map[Head(code_vec)]>> ELSE <<>>)
         \o MorseDecipherLoop(Tail(code_vec))

morse_code_decipher(code) == MorseDecipherLoop(Split(code, " "))

(***************************************************************************)
(* SpecMor: morse_code_cipher and, on its result or on a code of its own,  *)
(* morse_code_decipher.                                                    *)
(***************************************************************************)

MaxMorLen == 3

MaxCodeLen == 4

\* Table symbols (two of them with the same code), a lowercase letter, a
\* character the table does not have and one that uppercases to two.
MorAlphabet == {"E", "X", "*", " ", "/", "e", "~", SharpS}

CodeAlphabet == {".", "-", " ", "/"}

InitMor ==
    /\ build \in Builds
    /\ \/ \E text \in Strings(MorAlphabet, MaxMorLen) :
            mor = [pc |-> "cipher", text |-> text, code |-> <<>>,
                   decoded |-> <<>>, roundtrip |-> TRUE,
                   morse_code |-> EmptyMap, reverse_morse_code |-> EmptyMap]
       \/ \E code \in Strings(CodeAlphabet, MaxCodeLen) :
            mor = [pc |-> "decipher", text |-> <<>>, code |-> code,
                   decoded |-> <<>>, roundtrip |-> FALSE,
                   morse_code |-> EmptyMap, reverse_morse_code |-> EmptyMap]
    /\ gem = Idle /\ vig = Idle /\ cli = Idle /\ rf = Idle /\ lib = Idle

\* A call of morse_code_cipher: its map (the local morse_code) and its result.
MorCipher ==
    /\ mor.pc = "cipher"
    /\ mor' = [mor EXCEPT !.pc = "decipher", !.code = morse_code_cipher(mor.text),
                          !.morse_code = create_morse_code_map]
    /\ UNCHANGED <<build, gem, vig, cli, rf, lib>>

\* A call of morse_code_decipher: its map (the local reverse_morse_code) and
\* its result.
MorDecipher ==
    /\ mor.pc = "decipher"
    /\ mor' = [mor EXCEPT !.pc = "done", !.decoded = morse_code_decipher(mor.code),
                          !.reverse_morse_code = create_reverse_morse_code_map]
    /\ UNCHANGED <<build, gem, vig, cli, rf, lib>>

NextMor == MorCipher \/ MorDecipher

SpecMor == InitMor /\ [][NextMor]_vars

\* Every character of the text is a source symbol of the table.
InMorseTable(text) == \A i \in 1..Len(text) : text[i] \in DOMAIN create_morse_code_map

\* C4: for every text made only of characters that have an entry in the
\* table, morse_code_decipher(morse_code_cipher(m)) = m.
C4_MorseRoundTrip ==
    (mor.pc = "done" /\ mor.roundtrip /\ InMorseTable(mor.text))
        => mor.decoded = mor.text

\* Both functions were called: both maps were built from the table.
MapsBuilt == mor.pc = "done" /\ mor.roundtrip

\* C5: the table is a bijection: two distinct source symbols have distinct
\* codes, so that the reverse map gives back, for the code of every source
\* symbol s, exactly s.
C5_MorseTableBijective ==
    MapsBuilt =>
        /\ \A s, t \in DOMAIN mor.morse_code :
               s # t => mor.morse_code[s] # mor.morse_code[t]
        /\ \A s \in DOMAIN mor.morse_code :
               mor.reverse_morse_code[mor.morse_code[s]] = s

\* The round trip of a table text that has no "X", for comparison.
MorseRoundTripWithoutX ==
    (mor.pc = "done" /\ mor.roundtrip /\ InMorseTable(mor.text)
        /\ \A i \in 1..Len(mor.text) : mor.text[i] # "X")
        => mor.decoded = mor.text

(***************************************************************************)
(* rail_fence_cipher and rail_fence_decipher                               *)
(***************************************************************************)

\* The update without its first test: the walk does not turn at row 0.
ZigZagWithoutTopTurn(rail, dir, rails) ==
    LET d == IF rail = rails - 1 THEN -1 ELSE dir
    IN  <<rail + d, d>>

\* if rail == 0 { dir = 1 } else if rail == rails - 1 { dir = -1 };
\* rail = (rail as i32 + dir) as usize: the pair <<rail, dir>> after it.
ZigZag(rail, dir, rails) ==
    LET d == IF rail = 0 THEN 1 ELSE IF rail = rails - 1 THEN -1 ELSE dir
    IN  <<rail + d, d>>

\* The test without its first half: one rail is not seen as degenerate.
RailFenceIdentityWithoutOneRail(text, rails) == rails >= ByteLen(text)

\* rails == 1 || rails >= text.len(): the text is returned as it is.
RailFenceIdentity(text, rails) == rails = 1 \/ rails >= ByteLen(text)

\* The locals of either function past its first test.
RailFenceStart(text, rails) ==
    [text |-> text, rails |-> rails, fence |-> [i \in 1..rails |-> <<>>],
     dir |-> 1, rail |-> 0, pos |-> 1, positions |-> [i \in 1..rails |-> 0],
     row |-> 0, result |-> <<>>, panicked |-> FALSE]

\* fence[rail] and positions[rail] are indexed from 0: an index outside the
\* vector panics.
RailInRange(s) == s.rail >= 0 /\ s.rail < s.rails

\* One iteration of the loop of rail_fence_cipher.
RailFenceCipherLoop(s) ==
    IF ~RailInRange(s) THEN [s EXCEPT !.panicked = TRUE]
    ELSE LET z == ZigZag(s.rail, s.dir, s.rails)
         IN  [s EXCEPT !.fence[s.rail + 1] = Append(@, s.text[s.pos]),
                       !.rail = z[1], !.dir = z[2], !.pos = s.pos + 1]

\* The rows joined from the last to the first.
RECURSIVE JoinBottomUp(_)
JoinBottomUp(fence) ==
    IF fence = <<>> THEN <<>> ELSE JoinBottomUp(Tail(fence)) \o Head(fence)

\* fence.iter().map(|s| s.clone()).collect::<Vec<String>>().join("")
RECURSIVE Join(_)
Join(fence) == IF fence = <<>> THEN <<>> ELSE Head(fence) \o Join(Tail(fence))

\* The first loop with the count taken after the move: the row counted is
\* the next row of the walk.
RailFenceCountLoopAfterMove(s) ==
    IF ~RailInRange(s) THEN [s EXCEPT !.panicked = TRUE]
    ELSE LET z == ZigZag(s.rail, s.dir, s.rails)
         IN  [s EXCEPT !.positions[z[1] + 1] = @ + 1,
                       !.rail = z[1], !.dir = z[2], !.pos = s.pos + 1]

\* One iteration of the first loop of rail_fence_decipher.
RailFenceCountLoop(s) ==
    IF ~RailInRange(s) THEN [s EXCEPT !.panicked = TRUE]
    ELSE LET z == ZigZag(s.rail, s.dir, s.rails)
         IN  [s EXCEPT !.positions[s.rail + 1] = @ + 1,
                       !.rail = z[1], !.dir = z[2], !.pos = s.pos + 1]

\* One iteration of for i in 0..rails: positions[i] characters go from
\* ciphertext_chars, whose next character is at pos, to fence[i].  next()
\* past the end is None and unwrap() panics.
RailFenceFillLoop(s) ==
    LET n == s.positions[s.row + 1]
    IN  IF s.pos + n - 1 > Len(s.text) THEN [s EXCEPT !.panicked = TRUE]
        ELSE [s EXCEPT !.fence[s.row + 1] = SubSeq(s.text, s.pos, s.pos + n - 1),
                       !.pos = s.pos + n, !.row = s.row + 1]

\* The replay with the character taken at the end of the row (pop) and not
\* at its start.
RailFenceReplayLoopPop(s) ==
    IF ~RailInRange(s) THEN [s EXCEPT !.panicked = TRUE]
    ELSE LET z == ZigZag(s.rail, s.dir, s.rails)
             row == s.fence[s.rail + 1]
             moved == IF row # <<>>
                      THEN [s EXCEPT !.result = Append(@, row[Len(row)]),
                                     !.fence[s.rail + 1] = SubSeq(row, 1, Len(row) - 1)]
                      ELSE s
         IN  [moved EXCEPT !.rail = z[1], !.dir = z[2]]

\* One iteration of the while loop of rail_fence_decipher.
RailFenceReplayLoop(s) ==
    IF ~RailInRange(s) THEN [s EXCEPT !.panicked = TRUE]
    ELSE LET z == ZigZag(s.rail, s.dir, s.rails)
             row == s.fence[s.rail + 1]
             moved == IF row # <<>>
                      THEN [s EXCEPT !.result = Append(@, Head(row)),
                                     !.fence[s.rail + 1] = Tail(row)]
                      ELSE s
         IN  [moved EXCEPT !.rail = z[1], !.dir = z[2]]

(***************************************************************************)
(* SpecRf: rail_fence_cipher run character by character and its result    *)
(* handed to rail_fence_decipher, or rail_fence_decipher run on a text of  *)
(* its own.                                                                *)
(***************************************************************************)

MaxRailLen == 5

MaxRails == 4

RailAlphabet == {"a", "b", EAcute}

\* The fields of rf that outlive one call.
RfCall(pc, plaintext, ciphertext, roundtrip) ==
    [pc |-> pc, plaintext |-> plaintext, ciphertext |-> ciphertext,
     roundtrip |-> roundtrip, returned |-> <<>>]

InitRf ==
    /\ build \in Builds
    /\ \E text \in Strings(RailAlphabet, MaxRailLen), rails \in 0..MaxRails :
         \/ rf = RailFenceStart(text, rails) @@ RfCall("cipher", text, <<>>, TRUE)
         \/ rf = RailFenceStart(text, rails) @@ RfCall("count", <<>>, text, FALSE)
    /\ gem = Idle /\ vig = Idle /\ cli = Idle /\ mor = Idle /\ lib = Idle

\* The state a step leaves, or the panic it ends in.
RfStep(s) == IF s.panicked THEN [s EXCEPT !.pc = "panic"] ELSE s

\* What follows the return of a function: the result of rail_fence_cipher is
\* the ciphertext of rail_fence_decipher, with the same rails.
RfReturn(val) ==
    IF rf.pc = "cipher"
    THEN RailFenceStart(val, rf.rails) @@ RfCall("count", rf.plaintext, val, TRUE)
    ELSE [rf EXCEPT !.pc = "done", !.returned = val]

RfIdentity ==
    /\ rf.pc \in {"cipher", "count"}
    /\ RailFenceIdentity(rf.text, rf.rails)
    /\ rf' = RfReturn(rf.text)
    /\ UNCHANGED <<build, gem, vig, cli, mor, lib>>

RfCipherChar ==
    /\ rf.pc = "cipher"
    /\ ~RailFenceIdentity(rf.text, rf.rails)
    /\ rf.pos <= Len(rf.text)
    /\ rf' = RfStep(RailFenceCipherLoop(rf))
    /\ UNCHANGED <<build, gem, vig, cli, mor, lib>>

RfCipherJoin ==
    /\ rf.pc = "cipher"
    /\ ~RailFenceIdentity(rf.text, rf.rails)
    /\ rf.pos > Len(rf.text)
    /\ rf' = RfReturn(Join(rf.fence))
    /\ UNCHANGED <<build, gem, vig, cli, mor, lib>>

RfCountChar ==
    /\ rf.pc = "count"
    /\ ~RailFenceIdentity(rf.text, rf.rails)
    /\ rf.pos <= Len(rf.text)
    /\ rf' = RfStep(RailFenceCountLoop(rf))
    /\ UNCHANGED <<build, gem, vig, cli, mor, lib>>

\* The first loop is over: ciphertext_chars starts at the first character.
RfCounted ==
    /\ rf.pc = "count"
    /\ ~RailFenceIdentity(rf.text, rf.rails)
    /\ rf.pos > Len(rf.text)
    /\ rf' = [rf EXCEPT !.pc = "fill", !.pos = 1, !.row = 0]
    /\ UNCHANGED <<build, gem, vig, cli, mor, lib>>

RfFillRow ==
    /\ rf.pc = "fill"
    /\ rf.row < rf.rails
    /\ rf' = RfStep(RailFenceFillLoop(rf))
    /\ UNCHANGED <<build, gem, vig, cli, mor, lib>>

\* The fence is filled: rail = 0; dir = 1.
RfFilled ==
    /\ rf.pc = "fill"
    /\ rf.row >= rf.rails
    /\ rf' = [rf EXCEPT !.pc = "replay", !.rail = 0, !.dir = 1]
    /\ UNCHANGED <<build, gem, vig, cli, mor, lib>>

\* while result.len() < ciphertext.len()
RfReplayChar ==
    /\ rf.pc = "replay"
    /\ ByteLen(rf.result) < ByteLen(rf.text)
    /\ rf' = RfStep(RailFenceReplayLoop(rf))
    /\ UNCHANGED <<build, gem, vig, cli, mor, lib>>

RfReplayed ==
    /\ rf.pc = "replay"
    /\ ByteLen(rf.result) >= ByteLen(rf.text)
    /\ rf' = RfReturn(rf.result)
    /\ UNCHANGED <<build, gem, vig, cli, mor, lib>>

NextRf ==
    \/ RfIdentity \/ RfCipherChar \/ RfCipherJoin \/ RfCountChar \/ RfCounted
    \/ RfFillRow \/ RfFilled \/ RfReplayChar \/ RfReplayed

SpecRf == InitRf /\ [][NextRf]_vars

\* rail_fence_cipher was called with 2 <= rails < len(plaintext).
ProperRails == rf.roundtrip /\ 2 <= rf.rails /\ rf.rails < ByteLen(rf.plaintext)

\* C6: for every message m and rail count r with 2 <= r < len(m),
\* rail_fence_decipher(rail_fence_cipher(m, r), r) = m (and neither call
\* panics).
C6_RailFenceRoundTrip ==
    ProperRails => /\ rf.pc # "panic"
                   /\ rf.pc = "done" => rf.returned = rf.plaintext

\* C6's case: three rails, a walk that went down and up again, and a
\* ciphertext that differs from the message.
C6_Witness ==
    /\ ProperRails /\ rf.pc = "done" /\ rf.rails = 3
    /\ Len(rf.plaintext) >= 5 /\ rf.ciphertext # rf.plaintext

\* The row of the character at index i (from 0) in the zig-zag walk over
\* rails rows: 0, 1, ..., rails-1, rails-2, ..., 1, 0, 1, ...
RowOfIndex(i, rails) ==
    LET period == 2 * (rails - 1)
        k == i % period
    IN  IF k < rails THEN k ELSE period - k

\* The characters of m that the walk assigns to a row, in the order of m.
RECURSIVE CharsOfRow(_, _, _, _)
CharsOfRow(m, i, row, rails) ==
    IF i > Len(m) THEN <<>>
    ELSE (IF RowOfIndex(i - 1, rails) = row THEN <<m[i]>> ELSE <<>>)
             \o CharsOfRow(m, i + 1, row, rails)

\* The rows 0..rails-1 of the walk, one after the other.
RECURSIVE RowsInOrder(_, _, _)
RowsInOrder(m, row, rails) ==
    IF row >= rails THEN <<>>
    ELSE CharsOfRow(m, 1, row, rails) \o RowsInOrder(m, row + 1, rails)

Occurrences(c, s) == Cardinality({i \in 1..Len(s) : s[i] = c})

SameMultiset(s, t) ==
    \A c \in {s[i] : i \in 1..Len(s)} \cup {t[i] : i \in 1..Len(t)} :
        Occurrences(c, s) = Occurrences(c, t)

\* rail_fence_cipher has returned (its result is the text of the decipher).
RailFenceCipherReturned == rf.roundtrip /\ rf.pc \notin {"cipher", "panic"}

\* C15: for 2 <= r < len(m), rail_fence_cipher(m, r) is the concatenation,
\* rows 0..r-1 in order, of the characters the zig-zag walk assigns to each
\* row; the ciphertext has the length and the multiset of characters of m.
C15_RailFenceCipherIsZigZagRows ==
    ProperRails
        => /\ rf.pc # "panic"
           /\ RailFenceCipherReturned
                  => /\ rf.ciphertext = RowsInOrder(rf.plaintext, 0, rf.rails)
                     /\ Len(rf.ciphertext) = Len(rf.plaintext)
                     /\ ByteLen(rf.ciphertext) = ByteLen(rf.plaintext)
                     /\ SameMultiset(rf.ciphertext, rf.plaintext)

\* C15's case: rail_fence_cipher has just returned a ciphertext of three
\* rows whose walk turned at the bottom and at the top.
C15_Witness ==
    /\ ProperRails /\ rf.pc = "count" /\ rf.pos = 1
    /\ rf.rails = 3 /\ rf.plaintext = <<"a", "b", "b", "a", "a">>
    /\ rf.ciphertext = <<"a", "a", "b", "a", "b">>

\* C16: when rails is 1 or at least the length of the message, in bytes or
\* in characters, rail_fence_cipher and rail_fence_decipher both return
\* their argument unchanged and do not panic.
C16_DegenerateRailsAreIdentity ==
    (rf.rails = 1 \/ rf.rails >= Len(rf.text))
        => /\ rf.pc # "panic"
           /\ (rf.roundtrip /\ rf.pc # "cipher") => rf.ciphertext = rf.plaintext
           /\ rf.pc = "done" => rf.returned = rf.ciphertext

\* C16's case: one rail and a message of several characters went through
\* both functions.
C16_Witness ==
    /\ rf.roundtrip /\ rf.pc = "done" /\ rf.rails = 1
    /\ Len(rf.plaintext) >= 3 /\ rf.returned = rf.plaintext

(***************************************************************************)
(* rot13, caesar_cipher, reverse_cipher, atbash_cipher                     *)
(***************************************************************************)

\* The result of a call: ok is FALSE when it panicked, fits is FALSE when a
\* u8 operation of it overflowed (and, the build being a release, wrapped).
Returned(val) == [ok |-> TRUE, fits |-> TRUE, val |-> val]

Panicked == [ok |-> FALSE, fits |-> FALSE, val |-> <<>>]

\* The closure with a rotation of 12 in place of 13.
Rot13CharBy12(c) ==
    IF IsAsciiLowercase(c) THEN Chr(((Ord(c) - LowerA + 12) % 26) + LowerA)
    ELSE IF IsAsciiUppercase(c) THEN Chr(((Ord(c) - UpperA + 12) % 26) + UpperA)
    ELSE c

\* The closure with b'a' added back in the uppercase arm too.
Rot13CharFoldingCase(c) ==
    IF IsAsciiLowercase(c) THEN Chr(((Ord(c) - LowerA + 13) % 26) + LowerA)
    ELSE IF IsAsciiUppercase(c) THEN Chr(((Ord(c) - UpperA + 13) % 26) + LowerA)
    ELSE c

\* The closure of rot13: (((c as u8 - b'a' + 13) % 26) + b'a') as char
Rot13Char(c) ==
    IF IsAsciiLowercase(c) THEN Chr(((Ord(c) - LowerA + 13) % 26) + LowerA)
    ELSE IF IsAsciiUppercase(c) THEN Chr(((Ord(c) - UpperA + 13) % 26) + UpperA)
    ELSE c

rot13(message) == [i \in 1..Len(message) |-> Rot13Char(message[i])]

\* The closure of caesar_cipher: (((c as u8 - b'a' + shift) % 26) + b'a') as char
CaesarChar(c, shift) ==
    LET base == IF IsAsciiLowercase(c) THEN LowerA ELSE UpperA
        sum == U8(Ord(c) - base + shift)
    IN  IF IsAsciiAlphabetic(c)
        THEN [ok |-> sum.ok, val |-> Chr((sum.val % 26) + base)]
        ELSE [ok |-> TRUE, val |-> c]

caesar_cipher(message, shift, bld) ==
    LET fits == \A i \in 1..Len(message) : CaesarChar(message[i], shift).ok
    IN  IF ~fits /\ bld = "debug" THEN Panicked
        ELSE [ok |-> TRUE, fits |-> fits,
              val |-> [i \in 1..Len(message) |-> CaesarChar(message[i], shift).val]]

reverse_cipher(message) ==
    [i \in 1..Len(message) |-> message[Len(message) + 1 - i]]

\* The closure with the uppercase arm mirrored around 26 in place of 25.
AtbashCharUpperOffByOne(c) ==
    IF IsAsciiLowercase(c) THEN Chr(LowerA + 25 - (Ord(c) - LowerA))
    ELSE IF IsAsciiUppercase(c) THEN Chr(UpperA + 26 - (Ord(c) - UpperA))
    ELSE c

\* The closure of atbash_cipher: ('a' as u8 + 25 - (c as u8 - 'a' as u8)) as char
AtbashChar(c) ==
    IF IsAsciiLowercase(c) THEN Chr(LowerA + 25 - (Ord(c) - LowerA))
    ELSE IF IsAsciiUppercase(c) THEN Chr(UpperA + 25 - (Ord(c) - UpperA))
    ELSE c

atbash_cipher(plaintext) == [i \in 1..Len(plaintext) |-> AtbashChar(plaintext[i])]

atbash_decipher(ciphertext) == atbash_cipher(ciphertext)

(***************************************************************************)
(* The dispatcher of the command line: encode_message, decode_message      *)
(***************************************************************************)

\* Option::unwrap_or: an Option is <<>> (None) or <<v>> (Some(v)).
UnwrapOr(option, default) == IF option = <<>> THEN default ELSE option[1]

DefaultShift == 3

UnsupportedCipher ==
    <<"U", "n", "s", "u", "p", "p", "o", "r", "t", "e", "d", " ",
      "c", "i", "p", "h", "e", "r">>

encode_message(cipher, message, shift, key, bld) ==
    CASE cipher = "rot13" -> Returned(rot13(message))
      [] cipher = "caesar" -> caesar_cipher(message, UnwrapOr(shift, DefaultShift), bld)
      [] cipher = "reverse" -> Returned(reverse_cipher(message))
      [] cipher = "gematria" -> Returned(alpha2num(message))
      [] cipher = "vigenere" -> vigenere_cipher(message, UnwrapOr(key, <<>>), bld)
      [] cipher = "morse" -> Returned(morse_code_cipher(message))
      [] cipher = "atbash" -> Returned(atbash_cipher(message))
      [] OTHER -> Returned(UnsupportedCipher)

\* decode_message with a last arm that panics (unimplemented!()) where the
\* code returns the sentinel.
DecodeMessagePanickingOnOther(cipher, message, shift, key, bld) ==
    CASE cipher = "rot13" -> Returned(rot13(message))
      [] cipher = "caesar" ->
           LET product == U8(UnwrapOr(shift, DefaultShift) * 25)
               r == caesar_cipher(message, product.val, bld)
           IN  IF ~product.ok /\ bld = "debug" THEN Panicked
               ELSE [r EXCEPT !.fits = r.fits /\ product.ok]
      [] cipher = "reverse" -> Returned(reverse_cipher(message))
      [] cipher = "gematria" ->
           LET r == num2alpha(message)
           IN  IF r.ok THEN Returned(r.val) ELSE Panicked
      [] cipher = "vigenere" -> vigenere_decipher(message, UnwrapOr(key, <<>>), bld)
      [] cipher = "morse" -> Returned(morse_code_decipher(message))
      [] cipher = "atbash" -> Returned(atbash_decipher(message))
      [] OTHER -> Panicked

\* shift.unwrap_or(3) * 25 is a u8 product.
DecodeShift(shift) == U8(UnwrapOr(shift, DefaultShift) * 25)

decode_message(cipher, message, shift, key, bld) ==
    CASE cipher = "rot13" -> Returned(rot13(message))
      [] cipher = "caesar" ->
           LET product == DecodeShift(shift)
               r == caesar_cipher(message, product.val, bld)
           IN  IF ~product.ok /\ bld = "debug" THEN Panicked
               ELSE [r EXCEPT !.fits = r.fits /\ product.ok]
      [] cipher = "reverse" -> Returned(reverse_cipher(message))
      [] cipher = "gematria" ->
           LET r == num2alpha(message)
           IN  IF r.ok THEN Returned(r.val) ELSE Panicked
      [] cipher = "vigenere" -> vigenere_decipher(message, UnwrapOr(key, <<>>), bld)
      [] cipher = "morse" -> Returned(morse_code_decipher(message))
      [] cipher = "atbash" -> Returned(atbash_decipher(message))
      [] OTHER -> Returned(UnsupportedCipher)

(***************************************************************************)
(* SpecCli: encode_message and, on its result or on a message of its own,  *)
(* decode_message with the same cipher, shift and key.                     *)
(***************************************************************************)

MaxCliLen == 2

CliAlphabet == {"a", "k", "z", "Q", " ", EAcute}

\* The seven names of the dispatcher and two it does not know.
CliCiphers ==
    {"rot13", "caesar", "reverse", "gematria", "vigenere", "morse", "atbash",
     "railfence", "ROT13"}

\* The names that have an arm of their own in both match expressions.
SupportedCiphers ==
    {"rot13", "caesar", "reverse", "gematria", "vigenere", "morse", "atbash"}

\* --shift is a u8; the model gives every one to the cipher that reads it,
\* and a few (one whose product with 25 overflows) to the names the
\* dispatcher does not know.
CliShifts(cipher) ==
    IF cipher = "caesar" THEN {<<>>} \cup {<<s>> : s \in 0..U8Max}
    ELSE IF cipher \in SupportedCiphers THEN {<<>>}
    ELSE {<<>>, <<0>>, <<11>>, <<U8Max>>}

\* --key is a string; the model gives one to the cipher that reads it and
\* to the names the dispatcher does not know.
CliKeys(cipher) ==
    IF cipher = "vigenere" \/ cipher \notin SupportedCiphers
    THEN {<<>>} \cup {<<k>> : k \in Strings(KeyAlphabet, MaxKeyLen)} ELSE {<<>>}

InitCli ==
    /\ build \in Builds
    /\ \E cipher \in CliCiphers, message \in Strings(CliAlphabet, MaxCliLen),
          pc \in {"encode", "decode"} :
         \E shift \in CliShifts(cipher), key \in CliKeys(cipher) :
            cli = [pc |-> pc, cipher |-> cipher, message |-> message,
                   shift |-> shift, key |-> key, roundtrip |-> pc = "encode",
                   encoded |-> Returned(<<>>), decoded |-> Returned(<<>>)]
    /\ gem = Idle /\ vig = Idle /\ mor = Idle /\ rf = Idle /\ lib = Idle

\* cipha encode: the string returned is printed, a panic ends the process.
CliEncode ==
    /\ cli.pc = "encode"
    /\ LET r == encode_message(cli.cipher, cli.message, cli.shift, cli.key, build)
       IN  cli' = [cli EXCEPT !.encoded = r,
                              !.pc = IF r.ok THEN "decode" ELSE "panic"]
    /\ UNCHANGED <<build, gem, vig, mor, rf, lib>>

\* cipha decode, of what cipha encode printed or of the message given.
CliDecode ==
    /\ cli.pc = "decode"
    /\ LET text == IF cli.roundtrip THEN cli.encoded.val ELSE cli.message
           r == decode_message(cli.cipher, text, cli.shift, cli.key, build)
       IN  cli' = [cli EXCEPT !.decoded = r,
                              !.pc = IF r.ok THEN "done" ELSE "panic"]
    /\ UNCHANGED <<build, gem, vig, mor, rf, lib>>

NextCli == CliEncode \/ CliDecode

SpecCli == InitCli /\ [][NextCli]_vars

\* encode_message ran with the Caesar cipher and an explicit shift.
CaesarEncoded == cli.cipher = "caesar" /\ cli.roundtrip /\ cli.pc # "encode" /\ cli.shift # <<>>

\* C2: at the command line, for every ASCII message m and every shift s in
\* [0,26), decode_message("caesar", encode_message("caesar", m, s), s) = m:
\* neither call panics and the decoded text is the message.
C2_CliCaesarRoundTrip ==
    (CaesarEncoded /\ cli.shift[1] < 26)
        => /\ cli.pc # "panic"
           /\ cli.pc = "done" => cli.decoded.val = cli.message

\* The letter k positions after c in the ring of its case; c when no letter.
LetterAfter(c, k) ==
    IF IsAsciiLowercase(c) THEN Chr(LowerA + ((Ord(c) - LowerA + k) % 26))
    ELSE IF IsAsciiUppercase(c) THEN Chr(UpperA + ((Ord(c) - UpperA + k) % 26))
    ELSE c

\* C3: for every shift s in 0..255 and every ASCII letter c, caesar_cipher
\* replaces c by the letter (s mod 26) positions later in the ring of its
\* case, and the sum c - base + s never exceeds the u8 range.
C3_CaesarShiftsModulo26 ==
    CaesarEncoded
        => /\ cli.encoded.ok /\ cli.encoded.fits
           /\ cli.encoded.val =
                  [i \in 1..Len(cli.message) |->
                       LetterAfter(cli.message[i], cli.shift[1] % 26)]

\* The same for the shifts that leave room for the highest letter
\* (25 + shift <= 255), for comparison.
CaesarShiftsModulo26UpTo230 ==
    (CaesarEncoded /\ cli.shift[1] + 25 <= U8Max)
        => /\ cli.encoded.ok /\ cli.encoded.fits
           /\ cli.encoded.val =
                  [i \in 1..Len(cli.message) |->
                       LetterAfter(cli.message[i], cli.shift[1] % 26)]

(***************************************************************************)
(* The cipher structs of cipha-lib/src/ciphers.rs: CaesarCipher            *)
(***************************************************************************)

\* CaesarCipher::new(shift): the struct keeps the shift as given.
CaesarCipherNew(shift) == [shift |-> shift]

\* The closure of CaesarCipher::encipher and of CaesarCipher::decipher:
\* (((c as u8 - b'a' + shift) % 26) + b'a') as char
CaesarCipherChar(c, shift) ==
    IF IsAsciiLowercase(c)
    THEN LET sum == U8(Ord(c) - LowerA + shift)
         IN  [ok |-> sum.ok, val |-> Chr((sum.val % 26) + LowerA)]
    ELSE IF IsAsciiUppercase(c)
    THEN LET sum == U8(Ord(c) - UpperA + shift)
         IN  [ok |-> sum.ok, val |-> Chr((sum.val % 26) + UpperA)]
    ELSE [ok |-> TRUE, val |-> c]

\* message.chars().map(closure).collect()
CaesarCipherMap(message, shift, bld) ==
    LET fits == \A i \in 1..Len(message) : CaesarCipherChar(message[i], shift).ok
    IN  IF ~fits /\ bld = "debug" THEN Panicked
        ELSE [ok |-> TRUE, fits |-> fits,
              val |-> [i \in 1..Len(message) |->
                           CaesarCipherChar(message[i], shift).val]]

CaesarCipherEncipher(self, message, bld) == CaesarCipherMap(message, self.shift, bld)

\* The decipher that shifts forward by the shift itself.
CaesarCipherReverseShiftForward(shift) == U8(shift)

\* let reverse_shift = 26 - self.shift;  a u8 difference.
CaesarCipherReverseShift(shift) == U8(26 - shift)

CaesarCipherDecipher(self, message, bld) ==
    LET reverse_shift == CaesarCipherReverseShift(self.shift)
        r == CaesarCipherMap(message, reverse_shift.val, bld)
    IN  IF ~reverse_shift.ok /\ bld = "debug" THEN Panicked
        ELSE [r EXCEPT !.fits = r.fits /\ reverse_shift.ok]

(***************************************************************************)
(* SpecLib: a cipher of the library called on a message, and its decipher  *)
(* called on the result.                                                   *)
(***************************************************************************)

MaxLibLen == 3

LibAlphabet == {"a", "z", "N", "!"}

\* Every character of the model, as a message of one character.
OneCharMessages ==
    {<<AsciiPrintable[i]>> : i \in 1..Len(AsciiPrintable)} \cup {<<EAcute>>}

LibMessages == Strings(LibAlphabet, MaxLibLen) \cup OneCharMessages

LibCiphers == {"CaesarCipher", "rot13", "atbash"}

\* The shift is a u8; only CaesarCipher has one.
LibShifts(cipher) == IF cipher = "CaesarCipher" THEN 0..U8Max ELSE {0}

InitLib ==
    /\ build \in Builds
    /\ \E cipher \in LibCiphers, message \in LibMessages :
         \E shift \in LibShifts(cipher) :
            lib = [pc |-> "encipher", cipher |-> cipher, message |-> message,
                   self |-> CaesarCipherNew(shift),
                   enciphered |-> Returned(<<>>), deciphered |-> Returned(<<>>)]
    /\ gem = Idle /\ vig = Idle /\ cli = Idle /\ mor = Idle /\ rf = Idle

LibEncipherCall(cipher, self, message, bld) ==
    CASE cipher = "CaesarCipher" -> CaesarCipherEncipher(self, message, bld)
      [] cipher = "rot13" -> Returned(rot13(message))
      [] cipher = "atbash" -> Returned(atbash_cipher(message))

LibDecipherCall(cipher, self, message, bld) ==
    CASE cipher = "CaesarCipher" -> CaesarCipherDecipher(self, message, bld)
      [] cipher = "rot13" -> Returned(rot13(message))
      [] cipher = "atbash" -> Returned(atbash_decipher(message))

LibEncipher ==
    /\ lib.pc = "encipher"
    /\ LET r == LibEncipherCall(lib.cipher, lib.self, lib.message, build)
       IN  lib' = [lib EXCEPT !.enciphered = r,
                              !.pc = IF r.ok THEN "decipher" ELSE "panic"]
    /\ UNCHANGED <<build, gem, vig, cli, mor, rf>>

LibDecipher ==
    /\ lib.pc = "decipher"
    /\ LET r == LibDecipherCall(lib.cipher, lib.self, lib.enciphered.val, build)
       IN  lib' = [lib EXCEPT !.deciphered = r,
                              !.pc = IF r.ok THEN "done" ELSE "panic"]
    /\ UNCHANGED <<build, gem, vig, cli, mor, rf>>

NextLib == LibEncipher \/ LibDecipher

SpecLib == InitLib /\ [][NextLib]_vars

(***************************************************************************)
(* Claims about CaesarCipher, rot13 and atbash_cipher (SpecLib)            *)
(***************************************************************************)

\* C12: for every message m and every shift s in [0,26),
\* CaesarCipher::new(s).decipher(CaesarCipher::new(s).encipher(m)) = m:
\* neither call panics, no u8 operation overflows, and the deciphered text
\* is the message.
C12_CaesarCipherRoundTrip ==
    (lib.cipher = "CaesarCipher" /\ lib.self.shift < 26)
        => /\ lib.pc # "panic"
           /\ lib.enciphered.fits /\ lib.deciphered.fits
           /\ lib.pc = "done" => lib.deciphered.val = lib.message

\* C12's case: a shift other than 0 and 13 took a letter past the end of
\* its alphabet and decipher brought the message back.
C12_Witness ==
    /\ lib.cipher = "CaesarCipher" /\ lib.pc = "done"
    /\ lib.self.shift = 25 /\ Len(lib.message) = 3
    /\ lib.message[1] = "z" /\ lib.enciphered.val[1] = "y"
    /\ lib.message[2] = "N" /\ lib.message[3] = "!"
    /\ lib.deciphered.val = lib.message

\* C13: for every message m, rot13(rot13(m)) = m, and decoding with rot13 is
\* the same function as encoding: the dispatcher's decode and encode give
\* the same result on every message.
C13_Rot13Involution ==
    lib.cipher = "rot13"
        => /\ lib.pc # "panic"
           /\ lib.pc = "done" => lib.deciphered.val = lib.message
           /\ decode_message("rot13", lib.message, <<>>, <<>>, build)
                  = encode_message("rot13", lib.message, <<>>, <<>>, build)

\* C13's case: a message with a lowercase letter, an uppercase letter and a
\* character that is no letter, changed by the first rot13 and restored by
\* the second.
C13_Witness ==
    /\ lib.cipher = "rot13" /\ lib.pc = "done"
    /\ lib.message = <<"z", "N", "!">>
    /\ lib.enciphered.val = <<"m", "A", "!">>
    /\ lib.deciphered.val = lib.message

\* The letter at the mirrored offset of the alphabet of c's case: the
\* offsets of a letter and of its mirror add up to 25.
Mirrored(c) ==
    IF IsAsciiLowercase(c)
    THEN CHOOSE d \in {Chr(LowerA + k) : k \in 0..25} :
             (Ord(d) - LowerA) + (Ord(c) - LowerA) = 25
    ELSE IF IsAsciiUppercase(c)
    THEN CHOOSE d \in {Chr(UpperA + k) : k \in 0..25} :
             (Ord(d) - UpperA) + (Ord(c) - UpperA) = 25
    ELSE c

\* C14: atbash_cipher maps every ASCII letter to the letter at the mirrored
\* offset of the alphabet of its own case and leaves every other character,
\* and for every text t, atbash_decipher(atbash_cipher(t)) = t.
C14_AtbashMirrorsAndInverts ==
    (lib.cipher = "atbash" /\ lib.pc # "encipher")
        => /\ lib.pc # "panic"
           /\ lib.enciphered.val =
                  [i \in 1..Len(lib.message) |-> Mirrored(lib.message[i])]
           /\ lib.pc = "done" => lib.deciphered.val = lib.message

\* C14's case: B became Y and atbash_decipher brought it back.
C14_Witness ==
    /\ lib.cipher = "atbash" /\ lib.pc = "done"
    /\ lib.message = <<"B">> /\ lib.enciphered.val = <<"Y">>
    /\ lib.deciphered.val = <<"B">>

(***************************************************************************)
(* Claims about the empty key and the key cursor (SpecVig)                 *)
(***************************************************************************)

\* C17: with an empty key, vigenere_cipher and vigenere_decipher return
\* their input unchanged and do not fail, for every input text; so does the
\* dispatcher when no key is given.
C17_EmptyKeyIsIdentity ==
    Len(vig.key) = 0
        => /\ vig.pc # "panic"
           /\ vig.pc # "cipher" => vig.text = vig.plaintext
           /\ vig.pc = "done" => vig.result = vig.text
           /\ encode_message("vigenere", vig.plaintext, <<>>, <<>>, build)
                  = Returned(vig.plaintext)

\* C17's case: a text with letters went through both functions with the
\* empty key.
C17_Witness ==
    /\ Len(vig.key) = 0 /\ vig.roundtrip /\ vig.pc = "done"
    /\ vig.plaintext = <<"a", " ", "B">> /\ vig.result = vig.plaintext

LettersIn(s) == Cardinality({i \in 1..Len(s) : IsAsciiAlphabetic(s[i])})

\* The shift of the key character that the letter number i (from 0) of the
\* text meets: the position in the alphabet of key[i mod key_length].
KeyShiftOfLetter(key, i) == Ord(ToAsciiLowercase(key[(i % Len(key)) + 1])) - LowerA

\* What the character at position j of the text becomes.
VigenereExpected(text, key, j, decipher) ==
    LET k == KeyShiftOfLetter(key, LettersIn(SubSeq(text, 1, j - 1)))
    IN  IF ~IsAsciiAlphabetic(text[j]) THEN text[j]
        ELSE LetterAfter(text[j], IF decipher THEN 26 - k ELSE k)

\* C18: in both functions the key cursor, after any prefix of the input,
\* is the number of ASCII letters of that prefix: the letter number i of the
\* text is shifted by the key character at index i mod key_length, and a
\* character that is no letter is copied and leaves the cursor alone.
C18_KeyCursorCountsLetters ==
    (VigRunning /\ Len(vig.key) > 0)
        => /\ vig.index = LettersIn(SubSeq(vig.text, 1, vig.pos - 1))
           /\ Len(vig.out) = vig.pos - 1
           /\ AlphabeticKey(vig.key)
                  => \A j \in 1..Len(vig.out) :
                         vig.out[j] = VigenereExpected(vig.text, vig.key, j,
                                                       vig.pc = "decipher")

\* C18's case: a character that is no letter stood between two letters, and
\* the second letter met the second character of the key.
C18_Witness ==
    /\ vig.pc = "cipher" /\ vig.key = <<"b", "Z">>
    /\ vig.text = <<"a", " ", "z">> /\ vig.pos = 4
    /\ vig.index = 2 /\ vig.out = <<"b", " ", "y">>

(***************************************************************************)
(* Claims about the output of morse_code_cipher (SpecMor)                  *)
(***************************************************************************)

HasEntry(c) == \E i \in 1..Len(MORSE_CODE_MAP) : MORSE_CODE_MAP[i][1] = c

\* The code the table lists for a symbol (a symbol listed twice has the same
\* code both times).
CodeOf(c) == MORSE_CODE_MAP[CHOOSE i \in 1..Len(MORSE_CODE_MAP) : MORSE_CODE_MAP[i][1] = c][2]

\* The codes of the characters that have an entry, in their order.
RECURSIVE CodesOf(_)
CodesOf(chars) ==
    IF chars = <<>> THEN <<>>
    ELSE (IF HasEntry(Head(chars)) THEN <<CodeOf(Head(chars))>> ELSE <<>>)
         \o CodesOf(Tail(chars))

\* The codes with one space between two neighbours.
RECURSIVE SpaceSeparated(_)
SpaceSeparated(codes) ==
    IF codes = <<>> THEN <<>>
    ELSE IF Len(codes) = 1 THEN codes[1]
    ELSE codes[1] \o <<" ">> \o SpaceSeparated(Tail(codes))

\* morse_code_cipher has returned.
MorseCipherReturned == mor.roundtrip /\ mor.pc # "cipher"

\* C19: morse_code_cipher outputs exactly the codes of the characters of the
\* uppercased input that have a table entry, in input order, separated by
\* single spaces, with no leading or trailing space; a character without an
\* entry contributes nothing, not even a separator.
C19_MorseCipherOutput ==
    MorseCipherReturned
        => /\ mor.code = SpaceSeparated(CodesOf(StrToUppercase(mor.text)))
           /\ mor.code # <<>> => (Head(mor.code) # " " /\ mor.code[Len(mor.code)] # " ")
           /\ \A i \in 1..(Len(mor.code) - 1) :
                  ~(mor.code[i] = " " /\ mor.code[i + 1] = " ")

\* C19's case: a lowercase letter, a character without an entry and a table
\* symbol gave two codes and one separator.
C19_Witness ==
    /\ MorseCipherReturned /\ mor.text = <<"e", "~", "X">>
    /\ mor.code = <<".", " ", "-", ".", ".", "-">>

(***************************************************************************)
(* Claims about the names the dispatcher does not know (SpecCli)           *)
(***************************************************************************)

\* C20: for every cipher name that is not one of rot13, caesar, reverse,
\* gematria, vigenere, morse, atbash (compared case-sensitively), both
\* encode_message and decode_message return the string "Unsupported cipher"
\* and do not fail, whatever the message, the shift and the key.
C20_UnsupportedCipherSentinel ==
    cli.cipher \notin {"rot13", "caesar", "reverse", "gematria", "vigenere",
                       "morse", "atbash"}
        => /\ cli.pc # "panic"
           /\ (cli.roundtrip /\ cli.pc # "encode")
                  => cli.encoded = Returned(UnsupportedCipher)
           /\ cli.pc = "done" => cli.decoded = Returned(UnsupportedCipher)

\* C20's case: a supported name in uppercase, with a shift whose product
\* with 25 leaves the u8 range and a key, went through decode_message.
C20_Witness ==
    /\ cli.cipher = "ROT13" /\ cli.pc = "done" /\ ~cli.roundtrip
    /\ cli.shift = <<11>> /\ cli.key = << <<"b">> >> /\ cli.message = <<"a", "k">>
    /\ cli.decoded.val = UnsupportedCipher

(***************************************************************************)
(* Claims about what the letter ciphers leave alone (SpecCli)              *)
(***************************************************************************)

\* out has the characters of in that are no ASCII letters, in their places,
\* as many characters as in, and a letter of the same case for each letter.
KeepsFrame(in, out) ==
    /\ Len(out) = Len(in)
    /\ \A i \in 1..Len(in) :
           /\ ~IsAsciiAlphabetic(in[i]) => out[i] = in[i]
           /\ IsAsciiLowercase(in[i]) => IsAsciiLowercase(out[i])
           /\ IsAsciiUppercase(in[i]) => IsAsciiUppercase(out[i])

\* The ciphers of the dispatcher that call rot13, caesar_cipher,
\* vigenere_cipher, vigenere_decipher or atbash_cipher.
LetterCiphers == {"rot13", "caesar", "vigenere", "atbash"}

\* The text that decode_message was given.
CliDecodeInput == IF cli.roundtrip THEN cli.encoded.val ELSE cli.message

\* C21: rot13, caesar_cipher, vigenere_cipher, vigenere_decipher and
\* atbash_cipher leave every character that is no ASCII letter unchanged and
\* in place, keep the number of characters, and map a lowercase letter to a
\* lowercase letter and an uppercase letter to an uppercase letter, in every
\* result they return.
C21_LetterCiphersKeepFrame ==
    cli.cipher \in LetterCiphers
        => /\ (cli.roundtrip /\ cli.pc \in {"decode", "done"})
                  => KeepsFrame(cli.message, cli.encoded.val)
           /\ cli.pc = "done" => KeepsFrame(CliDecodeInput, cli.decoded.val)

\* C21's case: vigenere_cipher and vigenere_decipher went over an uppercase
\* letter and a character outside ASCII.
C21_Witness ==
    /\ cli.cipher = "vigenere" /\ cli.roundtrip /\ cli.pc = "done"
    /\ cli.key = << <<"b">> >> /\ cli.message = <<"Q", EAcute>>
    /\ cli.encoded.val = <<"R", EAcute>> /\ cli.decoded.val = cli.message

(***************************************************************************)
(* Claims about the shift of a key character (SpecVig)                     *)
(***************************************************************************)

\* The closure is about to run on a letter: it computes the shift of the key
\* character under the cursor.
ShiftComputed ==
    /\ VigRunning /\ Len(vig.key) > 0
    /\ vig.pos <= Len(vig.text) /\ IsAsciiAlphabetic(vig.text[vig.pos])

\* C22: for every key string, letters or not, the shift derived from each
\* key character (lowercased byte minus 'a') lies in [0,26) and the
\* subtraction does not underflow the u8.
C22_KeyShiftInRange ==
    ShiftComputed
        => /\ VigenereShift(vig.key, vig.index).ok
           /\ VigenereShift(vig.key, vig.index).val < 26

\* The same for the keys made of ASCII letters only, for comparison.
KeyShiftInRangeOfLetterKeys ==
    (ShiftComputed /\ AlphabeticKey(vig.key))
        => /\ VigenereShift(vig.key, vig.index).ok
           /\ VigenereShift(vig.key, vig.index).val < 26

(***************************************************************************)
(* Claims about the Caesar shifts that are multiples of 26 (SpecLib)       *)
(***************************************************************************)

\* A CaesarCipher whose shift is a multiple of 26 has been called.
MultipleOf26Called ==
    lib.cipher = "CaesarCipher" /\ lib.self.shift % 26 = 0 /\ lib.pc # "encipher"

\* cipha decode --cipher caesar --shift s on the message of lib.
CliCaesarDecode == decode_message("caesar", lib.message, <<lib.self.shift>>, <<>>, build)

\* C23: for every shift that is a multiple of 26 (0, 26, ..., 234), Caesar is
\* the identity in both directions: CaesarCipher::encipher,
\* CaesarCipher::decipher and the decode path of the command line all return
\* the message unchanged.
C23_MultiplesOf26AreIdentity ==
    MultipleOf26Called
        => /\ lib.pc # "panic"
           /\ lib.enciphered.val = lib.message
           /\ lib.pc = "done" => lib.deciphered.val = lib.enciphered.val
           /\ CliCaesarDecode.ok /\ CliCaesarDecode.val = lib.message

\* The same for the shift 0 alone, for comparison.
ShiftZeroIsIdentity ==
    (MultipleOf26Called /\ lib.self.shift = 0)
        => /\ lib.pc # "panic"
           /\ lib.enciphered.val = lib.message
           /\ lib.pc = "done" => lib.deciphered.val = lib.enciphered.val
           /\ CliCaesarDecode.ok /\ CliCaesarDecode.val = lib.message

\* The struct alone is the identity for the shifts 0 and 26.
StructIdentityUpTo26 ==
    (MultipleOf26Called /\ lib.self.shift <= 26)
        => /\ lib.pc # "panic"
           /\ lib.enciphered.val = lib.message
           /\ lib.pc = "done" => lib.deciphered.val = lib.enciphered.val

(***************************************************************************)
(* Claims about the loops of the rail fence (SpecRf)                       *)
(***************************************************************************)

\* C24: in every zig-zag loop of rail_fence_cipher and rail_fence_decipher
\* with rails >= 2, the row index is within 0..rails-1 at every access to
\* fence and positions, and after k iterations it is the k-th row of the
\* sequence 0, 1, ..., rails-1, rails-2, ..., 1, 0, 1, ...
C24_RailStaysOnTheFence ==
    rf.rails >= 2
        => /\ rf.pc # "panic"
           /\ rf.pc \in {"cipher", "count"}
                  => /\ RailInRange(rf)
                     /\ rf.rail = RowOfIndex(rf.pos - 1, rf.rails)
           /\ rf.pc = "replay"
                  => /\ RailInRange(rf)
                     /\ rf.rail = RowOfIndex(Len(rf.result), rf.rails)

\* C24's case: the replay loop of rail_fence_decipher walked three rows
\* down and up and is back at row 0.
C24_Witness ==
    /\ rf.pc = "replay" /\ rf.rails = 3 /\ Len(rf.result) = 4
    /\ rf.rail = 0 /\ rf.dir = -1 /\ Len(rf.text) >= 5

\* The program runs on: a call that can take a step takes it.
SpecRfFair == SpecRf /\ WF_vars(NextRf)

RECURSIVE SumOf(_)
SumOf(counts) == IF counts = <<>> THEN 0 ELSE Head(counts) + SumOf(Tail(counts))

\* rail_fence_decipher is in one of its loops, with 2 <= rails < len.
DecipherLoops ==
    /\ rf.pc \in {"count", "fill", "replay"}
    /\ 2 <= rf.rails /\ rf.rails < ByteLen(rf.text)

\* The while loop of rail_fence_decipher has an iteration to run.
ReplayRunning == rf.pc = "replay" /\ ByteLen(rf.result) < ByteLen(rf.text)

\* What C25 says of each state of the loops: the counts of the first pass
\* add up to the characters counted so far, and to the length of the
\* ciphertext once the pass is over; the row that an iteration of the replay
\* visits holds an unconsumed character; the replay stops with every
\* character of the ciphertext in the result and none left on the fence.
ReplayConsumesOnePerIteration ==
    DecipherLoops
        => /\ rf.pc = "count" => SumOf(rf.positions) = rf.pos - 1
           /\ rf.pc \in {"fill", "replay"} => SumOf(rf.positions) = Len(rf.text)
           /\ ReplayRunning => RailInRange(rf) /\ rf.fence[rf.rail + 1] # <<>>
           /\ rf.pc = "replay"
                  => Len(rf.result) + Len(Join(rf.fence)) = Len(rf.text)
           /\ (rf.pc = "replay" /\ ~ReplayRunning)
                  => Len(rf.result) = Len(rf.text)

\* C25: in rail_fence_decipher with 2 <= rails < len(ciphertext), the
\* per-row counts of the first pass sum to the length of the ciphertext, every
\* iteration of the replay loop finds an unconsumed character in the row it
\* visits and appends exactly one character, and the loop terminates, after
\* as many iterations as the ciphertext has characters.
C25_ReplayTerminates ==
    /\ []ReplayConsumesOnePerIteration
    /\ [][(DecipherLoops /\ ReplayRunning /\ rf'.pc = "replay")
              => Len(rf'.result) = Len(rf.result) + 1]_vars
    /\ (DecipherLoops) ~> (rf.pc = "done")

\* C25's case: the replay has appended the five characters of a ciphertext
\* of three rows, whose counts were 2, 2 and 1.
C25_Witness ==
    /\ rf.pc = "replay" /\ rf.rails = 3 /\ rf.positions = <<2, 2, 1>>
    /\ Len(rf.text) = 5 /\ Len(rf.result) = 5 /\ ByteLen(rf.text) > 5

(***************************************************************************)
(* Claims about the characters num2alpha ignores (SpecGem)                 *)
(***************************************************************************)

\* A character that is neither a decimal digit nor whitespace.
Ignored(c) == ~IsDigit(c) /\ ~IsWhitespace(c)

\* The text without its ignored characters.
WithoutIgnored(text) == SelectSeq(text, LAMBDA c : ~Ignored(c))

\* The for loop of num2alpha is on an ignored character.
OnIgnored ==
    /\ gem.pc = "scan" /\ gem.pos <= Len(gem.cipher_text)
    /\ Ignored(gem.cipher_text[gem.pos])

\* What the call of num2alpha gave, once it is over.
Num2AlphaGave == [ok |-> gem.pc = "done", val |-> gem.decrypted_text]

\* A call that is over gave what the text without its ignored characters
\* gives: the same panic, or the same string.
SameWithoutIgnored ==
    gem.pc \in {"done", "panic"}
        => LET stripped == num2alpha(WithoutIgnored(gem.cipher_text))
           IN  /\ stripped.ok = Num2AlphaGave.ok
               /\ stripped.ok => stripped.val = Num2AlphaGave.val

\* C26: in num2alpha a character that is neither a decimal digit nor
\* whitespace changes neither the output nor the digit buffer, and the loop
\* goes on; removing all such characters from the input yields the same
\* result.
C26_IgnoredCharactersAreInert ==
    /\ []SameWithoutIgnored
    /\ [][OnIgnored => /\ gem'.decrypted_text = gem.decrypted_text
                       /\ gem'.number_buffer = gem.number_buffer
                       /\ gem'.pc = "scan" /\ gem'.pos = gem.pos + 1]_vars

\* C26's case: "1,5" has been read as the number 15, the comma having ended
\* nothing.
C26_Witness ==
    /\ gem.pc = "done" /\ gem.cipher_text = <<"1", ",", "5">>
    /\ gem.decrypted_text = <<"o">> /\ gem.number = <<15>>

====
